---- MODULE Spec2Model ----
(***************************************************************************)
(* A model of clog/loggers.py: the Scribe logger (remote sink), the file   *)
(* and gzip loggers and the mock logger.                                   *)
(*                                                                         *)
(* Every thread runs a stack of frames, one frame per active function of   *)
(* loggers.py.  A frame's pc is named after the source line it is about to *)
(* execute.  A step of a thread executes the statement its top frame       *)
(* points at; shared attributes of the logger are read and written one     *)
(* statement at a time, so that unlocked accesses interleave.              *)
(***************************************************************************)
EXTENDS Integers, Sequences, FiniteSets, TLC

(* ---------------------------------------------------------------- bounds *)
MaxClock == 2
MaxReentry == 1
MaxMockCalls == 4
MaxFileCalls == 3
MaxNameLen == 3

Threads == {"t1", "t2"}
MainThread == "t1"
RetryIntervals == {0, 1}

(* ------------------------------------------------------------- constants *)
MAX_LINE_SIZE_IN_BYTES == 52428800
WARNING_LINE_SIZE_IN_BYTES == 5242880
WHO_CLOG_LARGE_LINE_STREAM ==
    <<"t","m","p","_","w","h","o","_","c","l","o","g","_",
      "l","a","r","g","e","_","l","i","n","e">>

\* The lengths of the encoded lines the callers submit: both thresholds,
\* and the first length past each.
LineSizes == {WARNING_LINE_SIZE_IN_BYTES, WARNING_LINE_SIZE_IN_BYTES + 1,
              MAX_LINE_SIZE_IN_BYTES, MAX_LINE_SIZE_IN_BYTES + 1}

\* The lengths of the lines a status reporter logs.
ReporterLineSizes == {WARNING_LINE_SIZE_IN_BYTES, MAX_LINE_SIZE_IN_BYTES + 1}

\* The lengths of the lines of the runs in which the collector recovers.
RecoveryLineSizes == {WARNING_LINE_SIZE_IN_BYTES, MAX_LINE_SIZE_IN_BYTES}

\* The lengths of the lines of the runs with two threads.
ThreadLineSizes == {WARNING_LINE_SIZE_IN_BYTES}

\* The stream names the callers use; "/" and " " are not scribe-safe.
UserStreams == { <<"a", "/", "b">> }

\* The streams and the lines of the runs of the MockLogger.
MockStreams == {"unit_test", "unit_test_scribed"}
MockLines == {"First Line.", "Second Line."}
NoListing == [stream |-> "", result |-> <<>>]

\* The file loggers of the runs: one FileLogger and two GZipFileLoggers.
FileLoggers == {"file", "gz1", "gz2"}
GZipFileLoggers == {"gz1", "gz2"}
FileStreams == {"first", "second"}
NoDay == ""
FirstDay == "2015-06-01"
Days == {FirstDay, "2015-06-02"}
\* The lines of the runs of the file loggers: text (str) and bytes; the
\* character e-acute takes two bytes in utf-8.
FileLines == { [type |-> "str", data |-> <<"e'", "F">>],
               [type |-> "bytes", data |-> <<"S">>] }
NoFileCall == [logger |-> "none", op |-> "none", raised |-> "none"]
FileCall(k, op, raised) == [logger |-> k, op |-> op, raised |-> raised]
\* What a destination that exists before the run holds.
OldContent == << <<"o", "\n">> >>

\* The characters of the stream names a log entry is built for: allowed
\* ones, a space, a slash, NUL, a newline and two non-ASCII characters.
NameChars == {"a", "Z", "9", "_", "-", " ", "/", "\\0", "\\n", "e'", "c,"}
StreamNames == UNION { [1..n -> NameChars] : n \in 0..MaxNameLen }

\* time.time() when the logger is constructed: the epoch is further in the
\* past than any retry interval, so that the first attempt is never throttled.
StartTime == 1 + CHOOSE i \in RetryIntervals : \A j \in RetryIntervals : j <= i

BirthPid == 1
ChildPid == 2

VARIABLES
    clock,              \* time.time()
    curpid,             \* os.getpid()
    retry_interval,     \* ScribeLogger.retry_interval
    connected,          \* ScribeLogger.connected
    last_connect_time,  \* ScribeLogger.last_connect_time
    transportOpen,      \* whether ScribeLogger.transport is open
    lockOwner,          \* the thread owning ScribeLogger.__lock, or "none"
    lockCount,          \* the RLock's recursion level
    stack,              \* per thread: the frames of the running call
    exc,                \* per thread: the exception being propagated
    done,               \* the record of the log_line call the last step ended
    wire,               \* the entry the collector received in the last step
    failT,              \* time.time() of the last failed open attempt
    recording,          \* whether the frames record the history of their calls
    healthy,            \* from now on the collector accepts every connection
                        \* and every send, and nobody forks or calls close()
    lastOp,             \* "close" after a call of close(), "close;close" after
                        \* two in a row, "none" otherwise (history)
    lines,              \* MockLogger.lines
    logged,             \* per stream, the lines logged since it was cleared (history)
    listing,            \* the stream and the result of the last list_lines call
    interp,             \* the interpreter that runs the file loggers
    day,                \* per file logger: GZipFileLogger.day
    stream_files,       \* per file logger: FileLogger.stream_files
    disk,               \* the files of config.log_dir: name -> chunks of bytes
    asked,              \* per file logger and stream: the lines passed to
                        \* log_line, encoded (history)
    prior,              \* per file logger and stream: what the destination
                        \* held when the logger opened it (history)
    clean,              \* per file logger: no open failed in the file system
                        \* and no line was logged after close() (history)
    fileCall,           \* the last file logger call: the logger, the
                        \* operation and the exception it raised
    openCount,          \* per file logger and stream: how many times the
                        \* logger has opened the destination (history)
    stream_name,        \* the stream a log entry is built for
    built_entry         \* the log entry built for it

vars == <<clock, curpid, retry_interval, connected, last_connect_time,
          transportOpen, lockOwner, lockCount, stack, exc, done, wire, failT,
          recording, healthy, lastOp, lines, logged, listing, interp, day,
          stream_files, disk, asked, prior, clean, fileCall, openCount,
          stream_name,
          built_entry>>

\* The ScribeLogger and its history; the MockLogger and its history.
scribeVars == <<clock, curpid, retry_interval, connected, last_connect_time,
                transportOpen, lockOwner, lockCount, stack, exc, done, wire,
                failT, recording, healthy, lastOp>>
mockVars == <<lines, logged, listing>>
fileVars == <<interp, day, stream_files, disk, asked, prior, clean, fileCall,
              openCount>>
entryVars == <<stream_name, built_entry>>
others == <<mockVars, fileVars, entryVars>>

(* ------------------------------------------------------------ the frames *)
\* What a log_line frame has observed of its own call (history, not read by
\* the code): opens, sends and closes count the transport operations, status
\* failTime is the time line 192 read after the last failed send, status
\* lists the is_error argument of every status report, submitted the
\* payloads handed to _log_line_no_size_limit and entries the log entries the
\* collector accepted.
NoTrace == [forked |-> FALSE, opens |-> 0, openFails |-> 0, sends |-> 0,
            sendFails |-> 0, closes |-> 0, dropped |-> 0, cbRaised |-> FALSE,
            conn0 |-> FALSE, last0 |-> 0, open0 |-> FALSE, prevOp |-> "none",
            failTime |-> 0,
            status |-> <<>>, submitted |-> <<>>, entries |-> <<>>]

NoLine == [kind |-> "none", of |-> <<>>, size |-> 0]

\* An encoded line of n bytes.
Line(n) == [kind |-> "line", of |-> <<>>, size |-> n]

\* json.dumps(origin_info): the stream and the size of the large line (the
\* traceback is not modelled).
OriginInfo(stream, line) == [kind |-> "origin", of |-> stream, size |-> line.size]

Frame(fn, pc, stream, line) ==
    [fn |-> fn, pc |-> pc, stream |-> stream, line |-> line, now |-> 0,
     is_error |-> FALSE, pending |-> "none", trace |-> NoTrace]

Top(stk) == stk[Len(stk)]
Pop(stk) == SubSeq(stk, 1, Len(stk) - 1)
Push(stk, f) == Append(stk, f)
SetTop(stk, f) == [stk EXCEPT ![Len(stk)] = f]
Goto(stk, pc) == [stk EXCEPT ![Len(stk)].pc = pc]

\* The number of log_line frames of a stack, and the index of the innermost.
RECURSIVE Innermost(_, _)
Innermost(stk, i) ==
    IF i = 0 THEN 0
    ELSE IF stk[i].fn = "log_line" THEN i ELSE Innermost(stk, i - 1)

Depth(stk) == Cardinality({i \in 1..Len(stk) : stk[i].fn = "log_line"})

\* stk with the trace of its innermost log_line frame replaced by f(trace).
Traced(stk, f(_)) ==
    LET i == Innermost(stk, Len(stk))
    IN IF i = 0 \/ ~recording THEN stk ELSE [stk EXCEPT ![i].trace = f(@)]

NoDone == [outcome |-> "none", thread |-> "none", depth |-> 0, stream |-> <<>>,
           line |-> NoLine, trace |-> NoTrace]

NoEntry == [category |-> <<>>, message |-> [payload |-> NoLine, nl |-> 0]]

(* ------------------------------------------------- pure parts of the code *)
\* clog.utils.scribify: every character outside [A-Za-z0-9_-] becomes "_".
Letters ==
    { "A", "B", "C", "D", "E", "F", "G", "H", "I", "J", "K", "L", "M",
      "N", "O", "P", "Q", "R", "S", "T", "U", "V", "W", "X", "Y", "Z",
      "a", "b", "c", "d", "e", "f", "g", "h", "i", "j", "k", "l", "m",
      "n", "o", "p", "q", "r", "s", "t", "u", "v", "w", "x", "y", "z",
      "0", "1", "2", "3", "4", "5", "6", "7", "8", "9", "_", "-" }
scribify(name) == [i \in 1..Len(name) |-> IF name[i] \in Letters THEN name[i] ELSE "_"]

\* A log entry whose category is the stream name as given.
LogEntryUnsanitized(stream, line) ==
    [category |-> stream, message |-> [payload |-> line, nl |-> 1]]

\* scribe_thrift.LogEntry(category=scribify(stream), message=line + b'\n')
LogEntry(stream, line) ==
    [category |-> scribify(stream), message |-> [payload |-> line, nl |-> 1]]

\* A size check that takes the warning threshold itself for a large line.
TriageStrict(n) ==
    IF n < WARNING_LINE_SIZE_IN_BYTES THEN "normal"
    ELSE IF n <= MAX_LINE_SIZE_IN_BYTES THEN "oversized"
    ELSE "rejected"

\* The branch log_line takes for a line of n bytes.
Triage(n) ==
    IF n <= WARNING_LINE_SIZE_IN_BYTES THEN "normal"
    ELSE IF n <= MAX_LINE_SIZE_IN_BYTES THEN "oversized"
    ELSE "rejected"

\* A throttle whose difference is taken the wrong way round.
RetryDueSwapped(now, last, interval) == (last - now) > interval

\* A throttle that lets an attempt through as soon as the interval is reached.
RetryDueAtInterval(now, last, interval) == (now - last) >= interval

\* The test of _maybe_reconnect: long enough since the last attempt.
RetryDue(now, last, interval) == (now - last) > interval

\* The name of the destination of a stream: FileLogger._create_file joins
\* config.log_dir and stream + '.log'; GZipFileLogger.get_filename uses
\* '%s-%Y-%m-%d.log.gz' with a day and '%s.log.gz' without.
LogDir == "log_dir"

\* A name that leaves the day out.
get_filename_undated(k, stream, d) ==
    LogDir \o "/" \o
    (IF k \in GZipFileLoggers THEN stream \o ".log.gz" ELSE stream \o ".log")

get_filename(k, stream, d) ==
    LogDir \o "/" \o
    (IF k \in GZipFileLoggers
     THEN (IF d # NoDay THEN stream \o "-" \o d \o ".log.gz"
           ELSE stream \o ".log.gz")
     ELSE stream \o ".log")

\* str.encode('utf-8'), character by character.
RECURSIVE Utf8(_)
Utf8(text) ==
    IF text = <<>> THEN <<>>
    ELSE (IF Head(text) = "e'" THEN <<"0xc3", "0xa9">> ELSE <<Head(text)>>)
         \o Utf8(Tail(text))

\* The bytes log_line writes for a line, before the newline.
Encoded(line) == IF line.type = "str" THEN Utf8(line.data) ELSE line.data

RECURSIVE Flatten(_)
\* The chunks of a file, read in order.
Flatten(chunks) ==
    IF chunks = <<>> THEN <<>> ELSE Head(chunks) \o Flatten(Tail(chunks))

\* Reading a destination back: the bytes of a plain file, the concatenated
\* members of a gzip file.
ReadBack(d, name) == IF name \in DOMAIN d THEN Flatten(d[name]) ELSE <<>>

(* ------------------------------------------------------------- the state *)
\* ScribeLogger.__init__, with or without the history of the calls.
InitScribe(rec) ==
    /\ clock = StartTime
    /\ curpid = BirthPid
    /\ retry_interval \in RetryIntervals
    /\ connected = FALSE
    /\ last_connect_time = 0
    /\ transportOpen = FALSE
    /\ lockOwner = "none"
    /\ lockCount = 0
    /\ stack = [t \in Threads |-> <<>>]
    /\ exc = [t \in Threads |-> "none"]
    /\ done = NoDone
    /\ wire = NoEntry
    /\ failT = -1
    /\ recording = rec
    /\ healthy = FALSE
    /\ lastOp = "none"

\* MockLogger.__init__: self.lines = {}.
InitMock ==
    /\ lines = <<>>
    /\ logged = [s \in MockStreams |-> <<>>]
    /\ listing = NoListing

\* FileLogger.__init__ and GZipFileLogger.__init__: no stream is open.  The
\* two GZipFileLoggers are given different days, and the destinations of
\* stream "first" may exist already.
InitFile ==
    /\ interp \in {"py2", "py3"}
    /\ day \in {d \in [FileLoggers -> {NoDay} \cup Days] :
                  /\ d["file"] = NoDay
                  /\ d["gz1"] = FirstDay
                  /\ d["gz2"] # d["gz1"]}
    /\ stream_files = [k \in FileLoggers |-> <<>>]
    /\ \E pre \in BOOLEAN :
          disk = IF pre
                 THEN [n \in {get_filename(k, "first", day[k]) : k \in FileLoggers}
                         |-> OldContent]
                 ELSE <<>>
    /\ asked = [k \in FileLoggers |-> [s \in FileStreams |-> <<>>]]
    /\ prior = [k \in FileLoggers |-> [s \in FileStreams |-> <<>>]]
    /\ clean = [k \in FileLoggers |-> TRUE]
    /\ fileCall = NoFileCall
    /\ openCount = [k \in FileLoggers |-> [s \in FileStreams |-> 0]]

\* The run constructs no file logger, or leaves the ones it has alone.
NoFileLoggers ==
    /\ interp = "py3"
    /\ day = [k \in FileLoggers |-> IF k = "gz1" THEN FirstDay ELSE NoDay]
    /\ stream_files = [k \in FileLoggers |-> <<>>]
    /\ disk = <<>>
    /\ asked = [k \in FileLoggers |-> [s \in FileStreams |-> <<>>]]
    /\ prior = [k \in FileLoggers |-> [s \in FileStreams |-> <<>>]]
    /\ clean = [k \in FileLoggers |-> TRUE]
    /\ fileCall = NoFileCall
    /\ openCount = [k \in FileLoggers |-> [s \in FileStreams |-> 0]]

\* No log entry has been built.
InitEntry == stream_name = <<>> /\ built_entry = NoEntry

Init == InitScribe(TRUE) /\ InitMock /\ NoFileLoggers /\ InitEntry

InitFiles == InitScribe(TRUE) /\ InitMock /\ InitFile /\ InitEntry

sink == <<connected, last_connect_time, transportOpen>>
lock == <<lockOwner, lockCount>>
env == <<clock, curpid, retry_interval, recording, healthy, others>>

Running(t) == stack[t] # <<>> /\ exc[t] = "none"
At(t, fn, pc) == Running(t) /\ Top(stack[t]).fn = fn /\ Top(stack[t]).pc = pc

\* Call frame f; the caller resumes at pc.
Call(stk, pc, f) == Push(Goto(stk, pc), f)

\* self.report_status(is_error, msg); the caller resumes at pc.
ReportStatus(stk, pc, is_error) ==
    Call(Traced(stk, LAMBDA tr : [tr EXCEPT !.status = Append(@, is_error)]),
         pc,
         [Frame("report_status", "cb", <<>>, NoLine) EXCEPT !.is_error = is_error])

\* A with block that does not release the lock on the way out.
StillHeld == <<lockOwner, lockCount>>

\* The lock after the owner leaves one `with self.__lock` block.
Released == <<IF lockCount = 1 THEN "none" ELSE lockOwner, lockCount - 1>>

\* The log_line frame on top of stack[t] ends with `outcome`: "returned", or
\* the exception it raises, which goes on to its caller.
Finish(t, outcome) ==
    LET f == Top(stack[t])
        rest == Pop(stack[t])
    IN /\ done' = [outcome |-> outcome, thread |-> t, depth |-> Depth(stack[t]),
                   stream |-> f.stream, line |-> f.line, trace |-> f.trace]
       /\ stack' = [stack EXCEPT ![t] = rest]
       /\ exc' = [exc EXCEPT ![t] =
                    IF outcome = "returned" \/ rest = <<>> THEN "none" ELSE outcome]
       /\ lastOp' = IF rest = <<>> /\ recording THEN "none" ELSE lastOp

\* done and wire describe the step just taken: a step in which no call ends,
\* or nothing reaches the collector, clears them.
NoCallEnds == done' = NoDone /\ UNCHANGED lastOp
NothingSent == wire' = NoEntry

(* -------------------------------------------------------- the environment *)
\* Time passes: up to MaxClock ticks, and, once the collector is healthy, for
\* as long as the last failure is no more than retry_interval ago.
Tick ==
    /\ \/ clock < StartTime + MaxClock
       \/ healthy /\ clock - last_connect_time <= retry_interval
    /\ clock' = clock + 1
    /\ UNCHANGED <<curpid, retry_interval, recording, healthy, others, sink, lock,
                   stack, exc, failT>>
    /\ NoCallEnds
    /\ NothingSent

\* The process forks: os.getpid() no longer returns the recorded pid.
Fork ==
    /\ ~healthy
    /\ curpid = BirthPid
    /\ curpid' = ChildPid
    /\ UNCHANGED <<clock, retry_interval, recording, healthy, others, sink, lock,
                   stack, exc, failT>>
    /\ NoCallEnds
    /\ NothingSent

(* ------------------------------------------------------ ScribeLogger calls *)
\* A thread calls log_line(stream, line) with a line of n encoded bytes.
CallLogLine(t, stream, n) ==
    /\ stack[t] = <<>>
    /\ stack' = [stack EXCEPT ![t] =
                   << [Frame("log_line", "L208", stream, Line(n))
                         EXCEPT !.trace.forked = (curpid # BirthPid)] >>]
    /\ UNCHANGED <<env, sink, lock, exc, failT>>
    /\ NoCallEnds
    /\ NothingSent

\* A thread calls close().
CallClose(t) ==
    /\ ~healthy
    /\ stack[t] = <<>>
    /\ stack' = [stack EXCEPT ![t] =
                   << [Frame("close", "L236", <<>>, NoLine)
                         EXCEPT !.trace.conn0 = connected,
                                !.trace.last0 = last_connect_time,
                                !.trace.open0 = transportOpen,
                                !.trace.prevOp = lastOp] >>]
    /\ UNCHANGED <<env, sink, lock, exc, failT>>
    /\ NoCallEnds
    /\ NothingSent

\* log_line, lines 208-233: the size check.
log_line_L208(t) ==
    /\ At(t, "log_line", "L208")
    /\ LET f == Top(stack[t])
           kind == Triage(f.line.size)
           sub == Traced(stack[t],
                         LAMBDA tr : [tr EXCEPT !.submitted = Append(@, f.line)])
           callee == Frame("_log_line_no_size_limit", "L173", f.stream, f.line)
       IN stack' = [stack EXCEPT ![t] =
              CASE kind = "normal" -> Call(sub, "L209r", callee)
                [] kind = "oversized" -> Call(sub, "L214", callee)
                [] OTHER -> ReportStatus(stack[t], "L232", TRUE)]
    /\ UNCHANGED <<env, sink, lock, exc, failT>>
    /\ NoCallEnds
    /\ NothingSent

\* log_line, lines 214-219: the origin of the large line goes to
\* WHO_CLOG_LARGE_LINE_STREAM.
log_line_L214(t) ==
    /\ At(t, "log_line", "L214")
    /\ LET f == Top(stack[t])
           log_line == OriginInfo(f.stream, f.line)
           sub == Traced(stack[t],
                         LAMBDA tr : [tr EXCEPT !.submitted = Append(@, log_line)])
       IN stack' = [stack EXCEPT ![t] =
              Call(sub, "L220",
                   Frame("_log_line_no_size_limit", "L173",
                         WHO_CLOG_LARGE_LINE_STREAM, log_line))]
    /\ UNCHANGED <<env, sink, lock, exc, failT>>
    /\ NoCallEnds
    /\ NothingSent

\* log_line, lines 220-224: the notice that the line is large.
log_line_L220(t) ==
    /\ At(t, "log_line", "L220")
    /\ stack' = [stack EXCEPT ![t] = ReportStatus(stack[t], "L209r", FALSE)]
    /\ UNCHANGED <<env, sink, lock, exc, failT>>
    /\ NoCallEnds
    /\ NothingSent

\* log_line returns.
log_line_return(t) ==
    /\ At(t, "log_line", "L209r")
    /\ Finish(t, "returned")
    /\ UNCHANGED <<env, sink, lock, failT>>
    /\ NothingSent

\* log_line, line 232: raise LogLineIsTooLongError.
log_line_L232(t) ==
    /\ At(t, "log_line", "L232")
    /\ Finish(t, "LogLineIsTooLongError")
    /\ UNCHANGED <<env, sink, lock, failT>>
    /\ NothingSent

(* --------------------------------------- ScribeLogger._log_line_no_size_limit *)
\* line 173: with self.__lock (a threading.RLock).
log_line_no_size_limit_L173(t) ==
    /\ At(t, "_log_line_no_size_limit", "L173")
    /\ lockOwner \in {"none", t}
    /\ lockOwner' = t
    /\ lockCount' = lockCount + 1
    /\ stack' = [stack EXCEPT ![t] = Goto(@, "L174")]
    /\ UNCHANGED <<env, sink, exc, failT>>
    /\ NoCallEnds
    /\ NothingSent

\* A logger that never compares the pids.
ForkIgnored(pid, birth) == FALSE

\* The outcome of the pid test of line 174.
ForkDetected(pid, birth) == pid # birth

\* lines 174-175: raise ScribeIsNotForkSafeError after a fork.
log_line_no_size_limit_L174(t) ==
    /\ At(t, "_log_line_no_size_limit", "L174")
    /\ IF ForkDetected(curpid, BirthPid)
       THEN /\ stack' = [stack EXCEPT ![t] = Pop(@)]
            /\ exc' = [exc EXCEPT ![t] = "ScribeIsNotForkSafeError"]
            /\ lockOwner' = Released[1]
            /\ lockCount' = Released[2]
       ELSE /\ stack' = [stack EXCEPT ![t] = Goto(@, "L176")]
            /\ UNCHANGED <<exc, lock>>
    /\ UNCHANGED <<env, sink, failT>>
    /\ NoCallEnds
    /\ NothingSent

\* lines 176-177: if not self.connected: self._maybe_reconnect().
log_line_no_size_limit_L176(t) ==
    /\ At(t, "_log_line_no_size_limit", "L176")
    /\ stack' = [stack EXCEPT ![t] =
           IF ~connected
           THEN Call(@, "L179", Frame("_maybe_reconnect", "L156", <<>>, NoLine))
           ELSE Goto(@, "L179")]
    /\ UNCHANGED <<env, sink, lock, exc, failT>>
    /\ NoCallEnds
    /\ NothingSent

\* A logger that sends whether or not it is connected.
SendsAlways(conn) == TRUE

\* Whether line 179 goes on to send the entry.
SendsEntry(conn) == conn

\* lines 179-180: if self.connected, build the entry; otherwise the with
\* block ends and the payload is dropped.
log_line_no_size_limit_L179(t) ==
    /\ At(t, "_log_line_no_size_limit", "L179")
    /\ IF SendsEntry(connected)
       THEN /\ stack' = [stack EXCEPT ![t] = Goto(@, "L182")]
            /\ UNCHANGED lock
       ELSE /\ stack' = [stack EXCEPT ![t] =
                   Traced(Pop(@), LAMBDA tr : [tr EXCEPT !.dropped = @ + 1])]
            /\ lockOwner' = Released[1]
            /\ lockCount' = Released[2]
    /\ UNCHANGED <<env, sink, exc, failT>>
    /\ NoCallEnds
    /\ NothingSent

\* line 182: self.client.Log(messages=[log_entry]).  The send can succeed
\* only on an open transport; it can fail on any, except that a healthy
\* collector accepts what comes over an open transport.
log_line_no_size_limit_L182(t) ==
    /\ At(t, "_log_line_no_size_limit", "L182")
    /\ LET f == Top(stack[t])
           log_entry == LogEntry(f.stream, f.line)
       IN \/ /\ transportOpen
             /\ wire' = log_entry
             /\ stack' = [stack EXCEPT ![t] =
                    Traced(Pop(@), LAMBDA tr :
                        [tr EXCEPT !.sends = @ + 1,
                                   !.entries = Append(@, log_entry)])]
             /\ lockOwner' = Released[1]
             /\ lockCount' = Released[2]
          \/ /\ ~healthy \/ ~transportOpen
             /\ stack' = [stack EXCEPT ![t] =
                    ReportStatus(
                        Traced(@, LAMBDA tr : [tr EXCEPT !.sends = @ + 1,
                                                         !.sendFails = @ + 1]),
                        "L191", TRUE)]
             /\ UNCHANGED lock
             /\ NothingSent
    /\ UNCHANGED <<env, sink, exc, failT>>
    /\ NoCallEnds

\* line 191, in the finally block: self.close().
log_line_no_size_limit_L191(t) ==
    /\ At(t, "_log_line_no_size_limit", "L191")
    /\ stack' = [stack EXCEPT ![t] =
           Call(@, "L192", Frame("close", "L236", <<>>, NoLine))]
    /\ UNCHANGED <<env, sink, lock, exc, failT>>
    /\ NoCallEnds
    /\ NothingSent

\* An except clause in place of the finally: the reporter's exception is
\* swallowed.
Swallowed(pending) == "none"

\* The exception that leaves the try of lines 184-192 after its finally
\* block: the one report_status raised, if any.
Reraised(pending) == pending

\* line 192: self.last_connect_time = time.time(); then the exception of
\* report_status, if any, leaves the finally block, or line 195 calls
\* self._maybe_reconnect().
log_line_no_size_limit_L192(t) ==
    /\ At(t, "_log_line_no_size_limit", "L192")
    /\ last_connect_time' = clock
    /\ LET stk == Traced(stack[t], LAMBDA tr : [tr EXCEPT !.failTime = clock])
       IN IF Reraised(Top(stack[t]).pending) # "none"
          THEN /\ stack' = [stack EXCEPT ![t] = Pop(stk)]
               /\ exc' = [exc EXCEPT ![t] = Reraised(Top(stack[t]).pending)]
               /\ lockOwner' = Released[1]
               /\ lockCount' = Released[2]
          ELSE /\ stack' = [stack EXCEPT ![t] =
                      Call(stk, "L195r", Frame("_maybe_reconnect", "L156", <<>>, NoLine))]
               /\ UNCHANGED <<exc, lock>>
    /\ UNCHANGED <<env, connected, transportOpen, failT>>
    /\ NoCallEnds
    /\ NothingSent

\* After line 195 the with block ends.
log_line_no_size_limit_L195(t) ==
    /\ At(t, "_log_line_no_size_limit", "L195r")
    /\ stack' = [stack EXCEPT ![t] = Pop(@)]
    /\ lockOwner' = Released[1]
    /\ lockCount' = Released[2]
    /\ UNCHANGED <<env, sink, exc, failT>>
    /\ NoCallEnds
    /\ NothingSent

(* ----------------------------------------------- ScribeLogger._maybe_reconnect *)
\* lines 156-160: the assertion, now = time.time() and the throttle.
maybe_reconnect_L156(t) ==
    /\ At(t, "_maybe_reconnect", "L156")
    /\ IF connected # FALSE
       THEN /\ stack' = [stack EXCEPT ![t] = Pop(@)]
            /\ exc' = [exc EXCEPT ![t] = "AssertionError"]
       ELSE /\ stack' = [stack EXCEPT ![t] =
                   IF RetryDue(clock, last_connect_time, retry_interval)
                   THEN SetTop(@, [Top(@) EXCEPT !.pc = "L162", !.now = clock])
                   ELSE Pop(@)]
            /\ UNCHANGED exc
    /\ UNCHANGED <<env, sink, lock, failT>>
    /\ NoCallEnds
    /\ NothingSent

\* An except clause that swallows the failure without reporting it.
OnTransportExceptionSilent(stk) == Goto(stk, "L166r")

\* line 166, in the except clause: report the failed connection.
OnTransportException(stk) == ReportStatus(stk, "L166r", TRUE)

\* lines 161-166: self.transport.open(); a TTransportException sets
\* last_connect_time to now and reports the failure.
maybe_reconnect_L162(t) ==
    /\ At(t, "_maybe_reconnect", "L162")
    /\ \/ /\ transportOpen' = TRUE
          /\ stack' = [stack EXCEPT ![t] =
                 Traced(Goto(@, "L163"), LAMBDA tr : [tr EXCEPT !.opens = @ + 1])]
          /\ UNCHANGED <<last_connect_time, failT>>
       \/ /\ ~healthy
          /\ transportOpen' = FALSE
          /\ last_connect_time' = Top(stack[t]).now
          /\ failT' = Top(stack[t]).now
          /\ stack' = [stack EXCEPT ![t] =
                 OnTransportException(
                     Traced(@, LAMBDA tr : [tr EXCEPT !.opens = @ + 1,
                                                      !.openFails = @ + 1]))]
    /\ UNCHANGED <<env, connected, lock, exc>>
    /\ NoCallEnds
    /\ NothingSent

\* line 163: self.connected = True.
maybe_reconnect_L163(t) ==
    /\ At(t, "_maybe_reconnect", "L163")
    /\ connected' = TRUE
    /\ stack' = [stack EXCEPT ![t] = Pop(@)]
    /\ UNCHANGED <<env, last_connect_time, transportOpen, lock, exc, failT>>
    /\ NoCallEnds
    /\ NothingSent

\* _maybe_reconnect returns after the report of line 166.
maybe_reconnect_L166(t) ==
    /\ At(t, "_maybe_reconnect", "L166r")
    /\ stack' = [stack EXCEPT ![t] = Pop(@)]
    /\ UNCHANGED <<env, sink, lock, exc, failT>>
    /\ NoCallEnds
    /\ NothingSent

(* ----------------------------------------------------------- ScribeLogger.close *)
\* line 236: self.transport.close().
close_L236(t) ==
    /\ At(t, "close", "L236")
    /\ transportOpen' = FALSE
    /\ stack' = [stack EXCEPT ![t] =
           Traced(Goto(@, "L237"), LAMBDA tr : [tr EXCEPT !.closes = @ + 1])]
    /\ UNCHANGED <<env, connected, last_connect_time, lock, exc, failT>>
    /\ NoCallEnds
    /\ NothingSent

\* A close() that closes the transport and leaves the flag as it is.
ClosedFlagStale == connected

\* What close() stores in self.connected (line 237).
ClosedFlag == FALSE

\* line 237: self.connected = False; close() returns.
close_L237(t) ==
    /\ At(t, "close", "L237")
    /\ connected' = ClosedFlag
    /\ stack' = [stack EXCEPT ![t] = Pop(@)]
    /\ lastOp' = IF Len(stack[t]) = 1 /\ recording
                  THEN (IF Top(stack[t]).trace.prevOp \in {"close", "close;close"}
                        THEN "close;close" ELSE "close")
                  ELSE lastOp
    /\ done' = NoDone
    /\ UNCHANGED <<env, last_connect_time, transportOpen, lock, exc, failT>>
    /\ NothingSent

(* ------------------------------------------------- the report_status callback *)
\* report_status(is_error, msg) is the caller's function: it returns, it
\* raises, or it logs through the same logger and then returns.
report_status_return(t) ==
    /\ At(t, "report_status", "cb") \/ At(t, "report_status", "cbr")
    /\ stack' = [stack EXCEPT ![t] = Pop(@)]
    /\ UNCHANGED <<env, sink, lock, exc, failT>>
    /\ NoCallEnds
    /\ NothingSent

report_status_raise(t) ==
    /\ At(t, "report_status", "cb")
    /\ stack' = [stack EXCEPT ![t] =
           Traced(Pop(@), LAMBDA tr : [tr EXCEPT !.cbRaised = TRUE])]
    /\ exc' = [exc EXCEPT ![t] = "ReporterError"]
    /\ UNCHANGED <<env, sink, lock, failT>>
    /\ NoCallEnds
    /\ NothingSent

report_status_log_line(t, stream, n) ==
    /\ At(t, "report_status", "cb")
    /\ Depth(stack[t]) <= MaxReentry
    /\ stack' = [stack EXCEPT ![t] =
           Push(Goto(@, "cbr"),
                [Frame("log_line", "L208", stream, Line(n))
                   EXCEPT !.trace.forked = (curpid # BirthPid)])]
    /\ UNCHANGED <<env, sink, lock, exc, failT>>
    /\ NoCallEnds
    /\ NothingSent

(* ------------------------------------------------------------- exceptions *)
\* The exception a thread is raising leaves its top frame.  The try of
\* lines 184-192 keeps it until the finally block has run; a with block
\* releases the lock; log_line hands it to its caller.
Propagate(t) ==
    /\ stack[t] # <<>>
    /\ exc[t] # "none"
    /\ LET f == Top(stack[t])
       IN CASE f.fn = "log_line" ->
                 /\ Finish(t, exc[t])
                 /\ UNCHANGED lock
            [] f.fn = "_log_line_no_size_limit" /\ f.pc = "L191" ->
                 /\ stack' = [stack EXCEPT ![t] =
                        SetTop(@, [f EXCEPT !.pending = exc[t]])]
                 /\ exc' = [exc EXCEPT ![t] = "none"]
                 /\ UNCHANGED <<lock>>
                 /\ NoCallEnds
            [] f.fn = "_log_line_no_size_limit" /\ f.pc # "L191" ->
                 /\ stack' = [stack EXCEPT ![t] = Pop(@)]
                 /\ lockOwner' = Released[1]
                 /\ lockCount' = Released[2]
                 /\ UNCHANGED <<exc>>
                 /\ NoCallEnds
            [] f.fn = "report_status" ->
                 /\ stack' = [stack EXCEPT ![t] =
                        Traced(Pop(@), LAMBDA tr : [tr EXCEPT !.cbRaised = TRUE])]
                 /\ UNCHANGED <<lock, exc>>
                 /\ NoCallEnds
            [] OTHER ->
                 /\ stack' = [stack EXCEPT ![t] = Pop(@)]
                 /\ UNCHANGED <<lock, exc>>
                 /\ NoCallEnds
    /\ UNCHANGED <<env, sink, failT>>
    /\ NothingSent

(* ------------------------------------------------------ the specifications *)
\* The steps of the code below log_line, shared by all the runs.
Deliver(t) ==
    \/ log_line_L208(t)
    \/ log_line_return(t)
    \/ log_line_no_size_limit_L173(t)
    \/ log_line_no_size_limit_L174(t)
    \/ log_line_no_size_limit_L176(t)
    \/ log_line_no_size_limit_L179(t)
    \/ log_line_no_size_limit_L182(t)
    \/ log_line_no_size_limit_L191(t)
    \/ log_line_no_size_limit_L192(t)
    \/ log_line_no_size_limit_L195(t)
    \/ maybe_reconnect_L156(t)
    \/ maybe_reconnect_L162(t)
    \/ maybe_reconnect_L163(t)
    \/ maybe_reconnect_L166(t)
    \/ close_L236(t)
    \/ close_L237(t)
    \/ report_status_return(t)
    \/ report_status_raise(t)
    \/ Propagate(t)

\* One thread uses the logger, with lines of every size class.
Next ==
    \/ Tick
    \/ Fork
    \/ \E s \in UserStreams, n \in LineSizes : CallLogLine(MainThread, s, n)
    \/ CallClose(MainThread)
    \/ log_line_L214(MainThread)
    \/ log_line_L220(MainThread)
    \/ log_line_L232(MainThread)
    \/ \E s \in UserStreams, n \in ReporterLineSizes :
           report_status_log_line(MainThread, s, n)
    \/ Deliver(MainThread)

Spec == Init /\ [][Next]_vars

\* The runs with several threads keep no history of the calls.
InitThreads == InitScribe(FALSE) /\ InitMock /\ NoFileLoggers /\ InitEntry

\* Several threads use the logger concurrently.
NextThreads ==
    \/ Tick
    \/ Fork
    \/ \E t \in Threads :
         \/ \E s \in UserStreams, n \in ThreadLineSizes : CallLogLine(t, s, n)
         \/ CallClose(t)
         \/ \E s \in UserStreams, n \in ThreadLineSizes :
                report_status_log_line(t, s, n)
         \/ Deliver(t)

SpecThreads == InitThreads /\ [][NextThreads]_vars

\* The collector recovers for good: from here on opens and sends succeed
\* and there is no fork and no close().
Recover ==
    /\ ~healthy /\ curpid = BirthPid
    /\ healthy' = TRUE
    /\ UNCHANGED <<clock, curpid, retry_interval, recording, others, sink, lock,
                   stack, exc, failT>>
    /\ NoCallEnds
    /\ NothingSent

\* A step of thread t inside a call.
Step(t) == Deliver(t) \/ log_line_L214(t) \/ log_line_L220(t)

\* One thread uses the logger with lines up to the maximum size while the
\* collector fails, and goes on after it has recovered.
NextRecovery ==
    \/ Tick
    \/ Fork
    \/ Recover
    \/ \E s \in UserStreams, n \in RecoveryLineSizes : CallLogLine(MainThread, s, n)
    \/ CallClose(MainThread)
    \/ Step(MainThread)

\* The clock advances, a thread inside a call goes on, and log_line keeps
\* being called.
FairRecovery ==
    /\ WF_vars(Tick)
    /\ WF_vars(Step(MainThread))
    /\ WF_vars(\E s \in UserStreams, n \in RecoveryLineSizes :
                  CallLogLine(MainThread, s, n))

SpecRecovery == InitThreads /\ [][NextRecovery]_vars /\ FairRecovery

(* ---------------------------------------------------------------- MockLogger *)
\* dict.setdefault(key, []) leaves the dict with an entry for key.
SetDefault(d, key) == IF key \in DOMAIN d THEN d ELSE d @@ (key :> <<>>)

\* The number of log_line calls so far; the runs stop at MaxMockCalls.
MockCalls == Len(logged["unit_test"]) + Len(logged["unit_test_scribed"])

\* A clear_lines that empties every stream.
ClearedAll(d, stream) == [k \in DOMAIN SetDefault(d, stream) |-> <<>>]

\* del self.lines.setdefault(stream, [])[:]
Cleared(d, stream) == [SetDefault(d, stream) EXCEPT ![stream] = <<>>]

\* A log_line that puts the new line first.
PrependedLine(d, stream, line) ==
    [SetDefault(d, stream) EXCEPT ![stream] = <<line>> \o @]

\* self.lines.setdefault(stream, []).append(line)
AppendedLine(d, stream, line) ==
    [SetDefault(d, stream) EXCEPT ![stream] = Append(@, line)]

\* MockLogger.log_line(stream, line)
MockLogLine(stream, line) ==
    /\ MockCalls < MaxMockCalls
    /\ lines' = AppendedLine(lines, stream, line)
    /\ logged' = [logged EXCEPT ![stream] = Append(@, line)]
    /\ listing' = NoListing
    /\ UNCHANGED <<scribeVars, fileVars, entryVars>>

\* MockLogger.clear_lines(stream)
MockClearLines(stream) ==
    /\ lines' = Cleared(lines, stream)
    /\ logged' = [logged EXCEPT ![stream] = <<>>]
    /\ listing' = NoListing
    /\ UNCHANGED <<scribeVars, fileVars, entryVars>>

\* MockLogger.list_lines(stream)
MockListLines(stream) ==
    /\ lines' = SetDefault(lines, stream)
    /\ listing' = [stream |-> stream, result |-> SetDefault(lines, stream)[stream]]
    /\ UNCHANGED <<logged, scribeVars, fileVars, entryVars>>

\* MockLogger.close()
MockClose ==
    /\ listing' = NoListing
    /\ UNCHANGED <<lines, logged, scribeVars, fileVars, entryVars>>

NextMock ==
    \/ \E s \in MockStreams, l \in MockLines : MockLogLine(s, l)
    \/ \E s \in MockStreams : MockClearLines(s)
    \/ \E s \in MockStreams : MockListLines(s)
    \/ MockClose

SpecMock == Init /\ [][NextMock]_vars

(* -------------------------------------------- FileLogger and GZipFileLogger *)
FileCalls ==
    LET n(k) == Len(asked[k]["first"]) + Len(asked[k]["second"])
    IN n("file") + n("gz1") + n("gz2")

\* The file system after open(name, 'a'): the file exists.
Created(d, name) == IF name \in DOMAIN d THEN d ELSE d @@ (name :> <<>>)

\* The mode FileLogger._create_file opens with: 'a', unbuffered.
OpenMode == "a"

\* The outcome of FileLogger._create_file under the interpreter: Python 3
\* refuses an unbuffered text file with a ValueError, after creating it.
CreateFileRaises(k) ==
    IF k \notin GZipFileLoggers /\ interp = "py3" /\ OpenMode = "a"
    THEN "ValueError" ELSE "none"

\* A write that replaces what the file holds.
Overwritten(chunks, bytes) == << bytes >>

\* file.write(bytes) on a file opened for appending.
Written(chunks, bytes) == Append(chunks, bytes)

\* FileLogger.log_line(stream, line), lines 246-261, on logger k.
FileLogLine(k, stream, line) ==
    LET name == get_filename(k, stream, day[k])
        known == stream \in DOMAIN stream_files[k]
        bytes == Encoded(line) \o <<"\n">>
    IN
    /\ FileCalls < MaxFileCalls
    /\ asked' = [asked EXCEPT ![k][stream] = Append(@, Encoded(line))]
    /\ \/ \* the stream is new and open() or gzip.open() raises IOError
          /\ ~known
          /\ fileCall' = FileCall(k, "log_line", "IOError")
          /\ clean' = [clean EXCEPT ![k] = FALSE]
          /\ UNCHANGED <<stream_files, disk, prior, openCount>>
       \/ \* the stream is new and _create_file raises under this interpreter
          /\ ~known
          /\ CreateFileRaises(k) # "none"
          /\ fileCall' = FileCall(k, "log_line", CreateFileRaises(k))
          /\ disk' = Created(disk, name)
          /\ openCount' = [openCount EXCEPT ![k][stream] = @ + 1]
          /\ UNCHANGED <<stream_files, prior, clean>>
       \/ \* the stream is new: the destination is opened, the line written
          /\ ~known
          /\ CreateFileRaises(k) = "none"
          /\ fileCall' = FileCall(k, "log_line", "none")
          /\ prior' = [prior EXCEPT ![k][stream] = ReadBack(disk, name)]
          /\ openCount' = [openCount EXCEPT ![k][stream] = @ + 1]
          /\ IF k \in GZipFileLoggers
             THEN /\ stream_files' = [stream_files EXCEPT ![k] =
                         @ @@ (stream :> [name |-> name, closed |-> FALSE,
                                          buffer |-> bytes])]
                  /\ disk' = Created(disk, name)
             ELSE /\ stream_files' = [stream_files EXCEPT ![k] =
                         @ @@ (stream :> [name |-> name, closed |-> FALSE,
                                          buffer |-> <<>>])]
                  /\ disk' = [Created(disk, name) EXCEPT ![name] = Written(@, bytes)]
          /\ UNCHANGED clean
       \/ \* the stream is open: the line is written
          /\ known /\ ~stream_files[k][stream].closed
          /\ fileCall' = FileCall(k, "log_line", "none")
          /\ IF k \in GZipFileLoggers
             THEN /\ stream_files' = [stream_files EXCEPT ![k][stream].buffer = @ \o bytes]
                  /\ UNCHANGED disk
             ELSE /\ disk' = [disk EXCEPT ![name] = Written(@, bytes)]
                  /\ UNCHANGED stream_files
          /\ UNCHANGED <<prior, clean, openCount>>
       \/ \* the stream was closed: write raises ValueError
          /\ known /\ stream_files[k][stream].closed
          /\ fileCall' = FileCall(k, "log_line", "ValueError")
          /\ clean' = [clean EXCEPT ![k] = FALSE]
          /\ UNCHANGED <<stream_files, disk, prior, openCount>>
    /\ UNCHANGED <<interp, day, scribeVars, mockVars, entryVars>>

\* The file system after the handles of logger k are closed: a gzip file
\* gets the buffered bytes of its handle as one more member.
RECURSIVE Flushed(_, _, _)
Flushed(d, files, names) ==
    IF names = {} THEN d
    ELSE LET s == CHOOSE x \in names : TRUE
             f == files[s]
         IN Flushed(IF f.closed \/ f.buffer = <<>> THEN d
                    ELSE [d EXCEPT ![f.name] = Written(@, f.buffer)],
                    files, names \ {s})

\* FileLogger.close(), lines 263-265, on logger k.
FileClose(k) ==
    /\ disk' = Flushed(disk, stream_files[k], DOMAIN stream_files[k])
    /\ stream_files' = [stream_files EXCEPT ![k] =
           [s \in DOMAIN @ |-> [@[s] EXCEPT !.closed = TRUE, !.buffer = <<>>]]]
    /\ fileCall' = FileCall(k, "close", "none")
    /\ UNCHANGED <<interp, day, asked, prior, clean, openCount, scribeVars,
                   mockVars, entryVars>>

NextFile ==
    \/ \E k \in FileLoggers, s \in FileStreams, l \in FileLines : FileLogLine(k, s, l)
    \/ \E k \in FileLoggers : FileClose(k)

SpecFile == InitFiles /\ [][NextFile]_vars

\* The two gzip loggers alone.
InitGzip == InitFiles /\ interp = "py3"

NextGzip ==
    \/ \E k \in GZipFileLoggers, s \in FileStreams, l \in FileLines :
           FileLogLine(k, s, l)
    \/ \E k \in GZipFileLoggers : FileClose(k)

SpecGzip == InitGzip /\ [][NextGzip]_vars

(* ------------------------------------------------------ the log entry *)
\* Line 180 of _log_line_no_size_limit for a stream name: the log entry is
\* built with the scribified name as its category.
BuildLogEntry(stream) ==
    /\ built_entry = NoEntry
    /\ built_entry' = LogEntry(stream, Line(WARNING_LINE_SIZE_IN_BYTES))
    /\ UNCHANGED <<stream_name, scribeVars, mockVars, fileVars>>

\* A log entry is to be built for any of the stream names.
InitEntries ==
    /\ InitScribe(TRUE) /\ InitMock /\ NoFileLoggers
    /\ stream_name \in StreamNames
    /\ built_entry = NoEntry

NextEntry == BuildLogEntry(stream_name)

SpecEntry == InitEntries /\ [][NextEntry]_vars

(* ------------------------------------------------------------- the claims *)
Busy(t) == stack[t] # <<>>
Opening(t) == Busy(t) /\ Top(stack[t]).fn = "_maybe_reconnect"
                      /\ Top(stack[t]).pc = "L162"

\* C1: reconnect throttle.  A thread is about to call transport.open() only
\* if its reading of the clock is strictly greater than t + retry_interval,
\* t being the clock reading of the last open attempt that failed; while the
\* clock is within that interval no thread is about to open the transport.
C1_ReconnectThrottle ==
    /\ \A t \in Threads :
         Opening(t) /\ failT >= 0 => Top(stack[t]).now > failT + retry_interval
    /\ failT >= 0 /\ clock <= failT + retry_interval =>
         \A t \in Threads : ~Opening(t)

\* A second attempt after a failed one, once the interval of one second is over.
C1_Witness ==
    \E t \in Threads : Opening(t) /\ failT >= 0 /\ retry_interval = 1

\* A call of log_line has just ended.
Ended == done.outcome # "none"

\* C2 as claimed: a log_line call made after the pid changed raises
\* ScribeIsNotForkSafeError for every line length.
C2_ForkSafetyAllLengths ==
    Ended /\ done.trace.forked => done.outcome = "ScribeIsNotForkSafeError"

\* C2, amended: a log_line call made after the pid changed raises
\* ScribeIsNotForkSafeError for every line of at most MAX_LINE_SIZE_IN_BYTES
\* bytes, whatever the connection state; a longer line is rejected by the
\* size check before the pid is compared, and the call raises
\* LogLineIsTooLongError unless the status reporter raises first.
C2_ForkSafety ==
    Ended /\ done.trace.forked =>
        /\ done.line.size <= MAX_LINE_SIZE_IN_BYTES =>
               done.outcome = "ScribeIsNotForkSafeError"
        /\ done.line.size > MAX_LINE_SIZE_IN_BYTES /\ ~done.trace.cbRaised =>
               done.outcome = "LogLineIsTooLongError"

\* A large line logged after the fork, on a logger that was connected.
C2_Witness ==
    /\ Ended /\ done.trace.forked /\ connected
    /\ done.line.size = WARNING_LINE_SIZE_IN_BYTES + 1
    /\ done.outcome = "ScribeIsNotForkSafeError"

\* The outermost call of thread t was made after the pid changed.
InForkedCall(t) ==
    Busy(t) /\ stack[t][1].fn = "log_line" /\ stack[t][1].trace.forked

\* C3: a log_line call made after the pid changed opens, closes and sends
\* nothing, and no step of it changes connected, last_connect_time or the
\* transport.
C3_ForkNoIO ==
    /\ [](Ended /\ done.trace.forked =>
            /\ done.trace.opens = 0
            /\ done.trace.sends = 0
            /\ done.trace.closes = 0
            /\ done.trace.entries = <<>>)
    /\ [][InForkedCall(MainThread) =>
            /\ UNCHANGED <<connected, last_connect_time, transportOpen>>
            /\ wire' = NoEntry]_vars

\* A call made after the fork ends on a logger that is connected and has
\* recorded a failure before.
C3_Witness ==
    /\ Ended /\ done.trace.forked /\ done.depth = 1
    /\ connected /\ transportOpen /\ last_connect_time > 0

RECURSIVE IsSubseq(_, _)
\* a is b with some of its elements left out.
IsSubseq(a, b) ==
    IF a = <<>> THEN TRUE
    ELSE IF b = <<>> THEN FALSE
    ELSE IF Head(a) = Head(b) THEN IsSubseq(Tail(a), Tail(b))
    ELSE IsSubseq(a, Tail(b))

Errors(status) == SelectSeq(status, LAMBDA b : b)
Notices(status) == SelectSeq(status, LAMBDA b : ~b)

\* What the size check hands to the delivery step for the call d, and the
\* entries the collector gets when every payload is delivered.
Handed(d) ==
    CASE d.line.size <= WARNING_LINE_SIZE_IN_BYTES -> << d.line >>
      [] d.line.size > MAX_LINE_SIZE_IN_BYTES -> << >>
      [] OTHER -> << d.line, OriginInfo(d.stream, d.line) >>

Expected(d) ==
    CASE d.line.size <= WARNING_LINE_SIZE_IN_BYTES -> << LogEntry(d.stream, d.line) >>
      [] d.line.size > MAX_LINE_SIZE_IN_BYTES -> << >>
      [] OTHER -> << LogEntry(d.stream, d.line),
                     LogEntry(WHO_CLOG_LARGE_LINE_STREAM, OriginInfo(d.stream, d.line)) >>

\* No payload of the call was dropped and no transport operation failed.
Healthy(tr) == tr.dropped = 0 /\ tr.openFails = 0 /\ tr.sendFails = 0

\* C4: size triage.  A line of at most WARNING_LINE_SIZE_IN_BYTES bytes is
\* the only payload handed to delivery and the size check reports nothing; a
\* longer line of at most MAX_LINE_SIZE_IN_BYTES bytes is handed over, then
\* its origin report on tmp_who_clog_large_line, then one notice
\* (is_error = false) is reported; a line over the maximum hands over
\* nothing, reports one error and raises LogLineIsTooLongError.  When no
\* payload is dropped and no transport operation fails, the collector gets
\* exactly the payloads handed over, in that order, and no other status is
\* reported.
C4_SizeTriage ==
    Ended =>
      LET n == done.line.size
          tr == done.trace
      IN /\ n > MAX_LINE_SIZE_IN_BYTES =>
              /\ tr.submitted = <<>> /\ tr.entries = <<>> /\ tr.sends = 0
              /\ tr.status = << TRUE >>
              /\ ~tr.cbRaised => done.outcome = "LogLineIsTooLongError"
         /\ n <= MAX_LINE_SIZE_IN_BYTES /\ ~tr.cbRaised =>
              done.outcome # "LogLineIsTooLongError"
         /\ n <= WARNING_LINE_SIZE_IN_BYTES =>
              Notices(tr.status) = <<>> /\ IsSubseq(tr.submitted, << done.line >>)
         /\ n <= MAX_LINE_SIZE_IN_BYTES /\ done.outcome = "returned" =>
              /\ tr.submitted = Handed(done)
              /\ IsSubseq(tr.entries, Expected(done))
              /\ Notices(tr.status) =
                    IF n <= WARNING_LINE_SIZE_IN_BYTES THEN <<>> ELSE << FALSE >>
              /\ n > WARNING_LINE_SIZE_IN_BYTES => tr.status[Len(tr.status)] = FALSE
              /\ Healthy(tr) =>
                    /\ tr.entries = Expected(done)
                    /\ Errors(tr.status) = <<>>

\* A large line and its origin report both reach the collector.
C4_Witness ==
    /\ Ended /\ done.outcome = "returned"
    /\ done.line.size = MAX_LINE_SIZE_IN_BYTES
    /\ done.trace.entries = Expected(done)
    /\ done.trace.status = << FALSE >>

\* C5: caller-visible errors.  When the status reporter does not raise, a
\* log_line call returns or raises ScribeIsNotForkSafeError or
\* LogLineIsTooLongError; every failed open and every failed send of the
\* call is reported once with is_error = true.
C5_CallerVisibleErrors ==
    Ended =>
      LET tr == done.trace
      IN /\ ~tr.cbRaised =>
               done.outcome \in {"returned", "ScribeIsNotForkSafeError",
                                 "LogLineIsTooLongError"}
         /\ Len(Errors(tr.status)) =
               tr.openFails + tr.sendFails
               + (IF done.line.size > MAX_LINE_SIZE_IN_BYTES THEN 1 ELSE 0)

\* A call in which a send failed, then the reconnect failed, returns.
C5_Witness ==
    /\ Ended /\ done.outcome = "returned"
    /\ done.trace.sendFails = 1 /\ done.trace.openFails = 1
    /\ ~done.trace.cbRaised

\* C6: best-effort delivery.  Line 182 is reached only while connected; a
\* normal line dropped at line 179 is not sent and its call returns; an
\* entry reaches the collector only in a step of the call that submitted
\* it, as the entry of the payload that call has just handed over; and the
\* entries of a call are payloads it handed over, each at most once.
C6_BestEffort ==
    /\ \A t \in Threads : At(t, "_log_line_no_size_limit", "L182") => connected
    /\ wire # NoEntry =>
         \E t \in Threads :
            /\ Busy(t) /\ Top(stack[t]).fn = "log_line"
            /\ LET f == Top(stack[t])
                   tr == f.trace
                   p == tr.submitted[Len(tr.submitted)]
               IN /\ tr.submitted # <<>> /\ tr.entries # <<>>
                  /\ tr.entries[Len(tr.entries)] = wire
                  /\ wire = LogEntry(IF p.kind = "origin"
                                     THEN WHO_CLOG_LARGE_LINE_STREAM ELSE f.stream, p)
    /\ Ended =>
         LET tr == done.trace
         IN /\ IsSubseq(tr.entries, Expected(done))
            /\ Len(tr.entries) <= tr.sends
            /\ tr.sends + tr.dropped <= Len(tr.submitted)
            /\ tr.dropped > 0 /\ done.line.size <= WARNING_LINE_SIZE_IN_BYTES =>
                  /\ done.outcome = "returned"
                  /\ tr.sends = 0 /\ tr.entries = <<>>

\* A line is dropped after a failed reconnect attempt.
C6_Witness ==
    /\ Ended /\ done.outcome = "returned"
    /\ done.trace.dropped = 1 /\ done.trace.openFails = 1
    /\ done.line.size = WARNING_LINE_SIZE_IN_BYTES

\* Thread t is about to change the connection state or to send.
InTransition(t) ==
    /\ Busy(t)
    /\ LET f == Top(stack[t])
       IN \/ f.fn = "close"
          \/ f.fn = "_maybe_reconnect" /\ f.pc \in {"L162", "L163"}
          \/ f.fn = "_log_line_no_size_limit" /\ f.pc \in {"L182", "L192"}

\* C7 as claimed: a thread changes the connection state or sends only while
\* it holds the lock, so no two threads are in such a step at once.
C7_ThreadSafety ==
    /\ \A t \in Threads : InTransition(t) => lockOwner = t
    /\ \A t1, t2 \in Threads :
         InTransition(t1) /\ InTransition(t2) => t1 = t2

\* C8: close().  When a call of close() returns, the transport is closed,
\* connected is false and last_connect_time is what it was when close() was
\* called; a close() that follows a close() leaves the logger as it found it.
C8_Close ==
    [][ (At(MainThread, "close", "L237") /\ Len(stack[MainThread]) = 1
           /\ stack'[MainThread] = <<>>) =>
          LET s0 == Top(stack[MainThread]).trace
          IN /\ connected' = FALSE
             /\ transportOpen' = FALSE
             /\ last_connect_time' = s0.last0
             /\ s0.prevOp \in {"close", "close;close"} =>
                  <<connected', last_connect_time', transportOpen'>>
                     = <<s0.conn0, s0.last0, s0.open0>> ]_vars

\* close() has returned twice in a row, on a logger that had been connected
\* and had recorded a failure.
C8_Witness ==
    /\ lastOp = "close;close" /\ ~Busy(MainThread)
    /\ ~connected /\ ~transportOpen /\ last_connect_time > 0

\* C9: memory sink.  list_lines(s) returns the lines logged to s since s
\* was last cleared, in call order; every stream the logger holds has
\* exactly those lines, and a stream it does not hold has none.
C9_MockLines ==
    /\ listing # NoListing => listing.result = logged[listing.stream]
    /\ \A s \in MockStreams :
         IF s \in DOMAIN lines THEN lines[s] = logged[s] ELSE logged[s] = <<>>

\* list_lines returns two lines of one stream, after the other stream was
\* written and cleared.
C9_Witness ==
    /\ listing.stream = "unit_test_scribed"
    /\ listing.result = << "First Line.", "Second Line." >>
    /\ "unit_test" \in DOMAIN lines /\ lines["unit_test"] = <<>>

RECURSIVE WithNewlines(_)
\* The lines, each followed by one newline.
WithNewlines(ls) ==
    IF ls = <<>> THEN <<>> ELSE Head(ls) \o <<"\n">> \o WithNewlines(Tail(ls))

\* Logger k was given lines and has just been closed.
AllClosed(k) ==
    /\ fileCall.logger = k /\ fileCall.op = "close"
    /\ \E s \in FileStreams : asked[k][s] # <<>>

\* The destination of stream s of logger k holds what it held before,
\* then the lines logged to s through k.
RoundTrip(k, s) ==
    ReadBack(disk, get_filename(k, s, day[k]))
        = (IF asked[k][s] = <<>>
           THEN ReadBack(disk, get_filename(k, s, day[k]))
           ELSE prior[k][s]) \o WithNewlines(asked[k][s])

\* C10 as claimed: after log_line calls on a file or gzip logger and
\* close(), with no failure of the file system, the destination of each
\* stream reads back as its earlier content followed by the lines logged to
\* that stream, each with one newline, in call order.
C10_FileRoundTrip ==
    \A k \in FileLoggers :
        AllClosed(k) /\ clean[k] => \A s \in FileStreams : RoundTrip(k, s)

\* The same, for the gzip loggers and for the FileLogger under Python 2.
C10_RoundTripWhereOpenWorks ==
    \A k \in FileLoggers :
        AllClosed(k) /\ clean[k] /\ (k \in GZipFileLoggers \/ interp = "py2") =>
            \A s \in FileStreams : RoundTrip(k, s)

\* Two lines of one stream and a line of another stream, closed, on top of
\* earlier content.
C10_Witness ==
    /\ AllClosed("gz1") /\ clean["gz1"]
    /\ Len(asked["gz1"]["first"]) = 2 /\ Len(asked["gz1"]["second"]) = 1
    /\ prior["gz1"]["first"] # <<>>

\* The destination of stream s of logger k.
Destination(k, s) == get_filename(k, s, day[k])

\* Every handle logger k opened is closed, and nothing failed on k.
Settled(k) ==
    /\ clean[k]
    /\ \A s \in DOMAIN stream_files[k] : stream_files[k][s].closed

\* C11: two gzip loggers constructed with different days name different
\* destinations for the same stream; once a logger is closed the destination
\* of each stream it used holds what it held before followed by the lines
\* logged through that logger and no other line; and a call on one logger
\* leaves the destinations of the other logger as they were.
C11_DatedIsolation ==
    /\ [](\A s \in FileStreams :
            /\ Destination("gz1", s) # Destination("gz2", s)
            /\ \A k \in GZipFileLoggers :
                 Settled(k) /\ s \in DOMAIN stream_files[k] => RoundTrip(k, s))
    /\ [][\A k \in GZipFileLoggers, s \in FileStreams :
            fileCall'.logger # k =>
                ReadBack(disk', Destination(k, s)) = ReadBack(disk, Destination(k, s))]_vars

\* Both dated loggers logged to the same stream and were closed; the two
\* destinations hold different lines.
C11_Witness ==
    /\ day["gz1"] \in Days /\ day["gz2"] \in Days
    /\ Settled("gz1") /\ Settled("gz2")
    /\ asked["gz1"]["first"] # <<>> /\ asked["gz2"]["first"] # <<>>
    /\ asked["gz1"]["first"] # asked["gz2"]["first"]
    /\ ReadBack(disk, Destination("gz1", "first"))
         # ReadBack(disk, Destination("gz2", "first"))

\* The characters a category may hold: [A-Za-z0-9_-].
AllowedChars ==
    {"a","b","c","d","e","f","g","h","i","j","k","l","m","n","o","p","q","r",
     "s","t","u","v","w","x","y","z"}
    \cup {"A","B","C","D","E","F","G","H","I","J","K","L","M","N","O","P","Q",
          "R","S","T","U","V","W","X","Y","Z"}
    \cup {"0","1","2","3","4","5","6","7","8","9"} \cup {"_", "-"}

\* The examples of test_scribify, character by character.
ScribifyExamples ==
    { << <<"t","h","i","s"," ","i","s"," ","a"," ","t","e","s","t">>,
         <<"t","h","i","s","_","i","s","_","a","_","t","e","s","t">> >>,
      << <<"t","h","i","s","\\0","i","s"," ","a","-","t","e","s","t","\\n","\\n">>,
         <<"t","h","i","s","_","i","s","_","a","-","t","e","s","t","_","_">> >>,
      << <<"i","n","t","e'","r","n","a","c,","i","o","n">>,
         <<"i","n","t","_","r","n","a","_","i","o","n">> >> }

\* C12: the category of a log entry built for stream name s has as many
\* characters as s, holds only characters of [A-Za-z0-9_-], keeps each
\* allowed character of s in its place and has one underscore for each
\* other character; sanitizing it again changes nothing; and the sanitizer
\* gives the results test_scribify expects.
C12_Sanitizer ==
    /\ built_entry # NoEntry =>
         LET s == stream_name
             c == built_entry.category
         IN /\ Len(c) = Len(s)
            /\ \A i \in 1..Len(s) :
                 /\ c[i] \in AllowedChars
                 /\ s[i] \in AllowedChars => c[i] = s[i]
                 /\ s[i] \notin AllowedChars => c[i] = "_"
            /\ LogEntry(c, built_entry.message.payload).category = c
    /\ \A ex \in ScribifyExamples : scribify(ex[1]) = ex[2]

\* An entry for a name with an allowed character, a two-byte character and
\* a slash.
C12_Witness ==
    /\ built_entry # NoEntry
    /\ stream_name = <<"a", "e'", "/">>
    /\ built_entry.category = <<"a", "_", "_">>

\* C13 as claimed: whenever no thread holds the lock, connected implies
\* that the transport is open.
C13_ConnectedImpliesOpen ==
    lockOwner = "none" => (connected => transportOpen)

\* The same, only in the states where no thread is inside a method of the
\* sink.
C13_ConnectedImpliesOpenAtRest ==
    (\A t \in Threads : stack[t] = <<>>) => (connected => transportOpen)

\* Thread t is completing line 192, the end of the handling of a failed send.
Handled(t) == At(t, "_log_line_no_size_limit", "L192") /\ stack'[t] # stack[t]

\* The history of the log_line call thread t is innermost in.
TraceOf(stk) == stk[Innermost(stk, Len(stk))].trace

\* C14 as claimed: when a log_line call in which a send failed returns or
\* raises, the failure has been reported with is_error = true, the transport
\* is closed, connected is false and last_connect_time is the time read
\* when the failure was handled.
C14_StateAtReturn ==
    Ended /\ done.trace.sendFails >= 1 =>
        /\ Len(Errors(done.trace.status)) >= 1
        /\ ~transportOpen /\ ~connected
        /\ last_connect_time = done.trace.failTime

\* C14, amended: when the handling of a failed send ends at line 192,
\* before the reconnect step of line 195 or as the reporter's exception
\* leaves, every failed send of the call has been reported with is_error =
\* true, the transport is closed, connected is false and last_connect_time
\* is the time just read; a reporter's exception leaves with that state.
C14_StateAfterSendFailure ==
    [][\A t \in Threads :
         Handled(t) =>
           /\ ~transportOpen' /\ ~connected'
           /\ last_connect_time' = clock
           /\ LET tr == TraceOf(stack[t])
              IN /\ tr.sendFails >= 1
                 /\ Len(Errors(tr.status)) >=
                      tr.openFails + tr.sendFails
           /\ Top(stack[t]).pending # "none" =>
                 /\ exc'[t] = Top(stack[t]).pending
                 /\ Top(stack'[t]).fn = "log_line"]_vars

\* The handling of a failed send has just ended with a reporter that
\* raised: the exception is on its way out of log_line.
C14_Witness ==
    \E t \in Threads :
        /\ exc[t] = "ReporterError"
        /\ stack[t] # <<>> /\ Top(stack[t]).fn = "log_line"
        /\ Top(stack[t]).trace.sendFails = 1
        /\ Top(stack[t]).trace.failTime = last_connect_time
        /\ Top(stack[t]).trace.closes = 1
        /\ ~connected /\ ~transportOpen

\* Thread t is in the reconnect step of line 195, at the throttle.
AtImmediateReconnect(t) ==
    /\ At(t, "_maybe_reconnect", "L156")
    /\ Len(stack[t]) >= 2
    /\ stack[t][Len(stack[t]) - 1].pc = "L195r"

\* C15 as claimed: after a failed send whose report returned normally, the
\* reconnect step of line 195 makes a transport open attempt: it goes on to
\* transport.open() instead of returning at the throttle.
C15_ImmediateReconnect ==
    [][\A t \in Threads :
         AtImmediateReconnect(t) /\ stack'[t] # stack[t] =>
            At(t, "_maybe_reconnect", "L162")']_vars

\* Thread t is completing line 192 after a report_status that raised.
HandledWithRaise(t) == Handled(t) /\ Top(stack[t]).pending # "none"

\* C16 as claimed: when report_status raises while a failed send is handled,
\* no reconnect step follows and the exception does not go on into
\* log_line: the thread is not raising after line 192.
C16_ReporterErrorContained ==
    [][\A t \in Threads :
         HandledWithRaise(t) =>
            /\ ~At(t, "_maybe_reconnect", "L156")'
            /\ exc'[t] = "none"]_vars

\* C16, amended: when report_status raises while a failed send is handled,
\* line 195 is skipped and the reporter's exception goes on into log_line;
\* while it propagates the thread touches neither the transport nor the
\* connection state; and a log_line call in which a reporter raised never
\* returns normally.
C16_ReporterErrorPropagates ==
    /\ [][\A t \in Threads :
            /\ HandledWithRaise(t) =>
                  /\ ~At(t, "_maybe_reconnect", "L156")'
                  /\ exc'[t] = Top(stack[t]).pending
                  /\ Top(stack'[t]).fn = "log_line"
            /\ exc[t] # "none" /\ stack[t] # <<>> =>
                  /\ UNCHANGED sink
                  /\ Len(stack'[t]) <= Len(stack[t])]_vars
    /\ [](Ended /\ done.trace.cbRaised => done.outcome # "returned")

\* A call connected, its send failed, the reporter raised, and the call
\* ended with the reporter's exception without another open attempt.
C16_Witness ==
    /\ Ended /\ done.outcome = "ReporterError" /\ done.depth = 1
    /\ done.trace.sendFails = 1 /\ done.trace.cbRaised
    /\ done.trace.opens = 1 /\ done.trace.closes = 1
    /\ done.trace.status = << TRUE >>
    /\ ~connected /\ ~transportOpen

\* The number of `with self.__lock` blocks thread t is inside.
WithBlocks(t) ==
    Cardinality({i \in 1..Len(stack[t]) :
                    /\ stack[t][i].fn = "_log_line_no_size_limit"
                    /\ stack[t][i].pc # "L173"})

\* C17: the lock is held exactly by a thread that is inside a with block
\* of _log_line_no_size_limit, as many times as it has entered one, so
\* every way out of log_line (return, dropped payload, fork error, an
\* exception of the reporter) leaves the lock free for the threads that
\* wait; and a thread that reaches line 173 again while it holds the lock
\* can take it again.
C17_LockReleased ==
    /\ (lockOwner = "none") <=> (lockCount = 0)
    /\ \A t \in Threads :
         /\ WithBlocks(t) = (IF lockOwner = t THEN lockCount ELSE 0)
         /\ stack[t] = <<>> => lockOwner # t
         /\ At(t, "_log_line_no_size_limit", "L173") /\ lockOwner = t =>
               ENABLED log_line_no_size_limit_L173(t)

\* A thread holds the lock twice, through a reporter that logs, while the
\* other thread waits at line 173.
C17_Witness ==
    \E t \in Threads, u \in Threads :
        /\ t # u
        /\ lockOwner = t /\ lockCount = 2
        /\ At(u, "_log_line_no_size_limit", "L173")

\* A thread whose call ended with an exception of the reporter has left the
\* lock free, and the other thread, which waited, now holds it.
C17_WitnessAfterRaise ==
    \E t \in Threads, u \in Threads :
        /\ t # u
        /\ done.thread = t /\ done.outcome = "ReporterError"
        /\ stack[t] = <<>>
        /\ lockOwner = u

\* The registry of logger k keeps its entries and their handles' names, and
\* the destination of a registered stream is not opened again.
RegistryKept(k) ==
    /\ DOMAIN stream_files[k] \subseteq DOMAIN stream_files'[k]
    /\ \A s \in DOMAIN stream_files[k] :
         /\ stream_files'[k][s].name = stream_files[k][s].name
         /\ openCount'[k][s] = openCount[k][s]

\* C18 as claimed: the registered stream names of a file or gzip logger
\* never shrink, close() keeps the entries, a registered stream is served
\* by its handle without opening the destination again, also after
\* close(), and a logger opens the destination of a stream at most once.
C18_StreamRegistry ==
    /\ [][\A k \in FileLoggers : RegistryKept(k)]_vars
    /\ [](\A k \in FileLoggers, s \in FileStreams : openCount[k][s] <= 1)

\* The same, for the gzip loggers and for the FileLogger under Python 2.
C18_RegistryWhereOpenWorks ==
    /\ [][\A k \in FileLoggers : RegistryKept(k)]_vars
    /\ [](\A k \in FileLoggers, s \in FileStreams :
            k \in GZipFileLoggers \/ interp = "py2" =>
               /\ openCount[k][s] <= 1
               /\ s \in DOMAIN stream_files[k] => openCount[k][s] = 1)

\* A gzip logger was closed and then given a line for a stream it had
\* used: the write raised, the entry is still there and the destination
\* was opened once.
C18_Witness ==
    /\ fileCall = FileCall("gz1", "log_line", "ValueError")
    /\ "first" \in DOMAIN stream_files["gz1"]
    /\ stream_files["gz1"]["first"].closed
    /\ openCount["gz1"]["first"] = 1
    /\ Len(asked["gz1"]["first"]) = 2

\* C19: connected is false whenever a thread is at the assertion of line
\* 156, on the path of line 177 and on the path of line 195, and the
\* assertion never fails.
C19_AssertionHolds ==
    \A t \in Threads :
        /\ At(t, "_maybe_reconnect", "L156") => connected = FALSE
        /\ exc[t] # "AssertionError"

\* A thread enters the reconnect step of line 195 while the other thread is
\* inside close().
C19_Witness ==
    \E t \in Threads, u \in Threads :
        /\ t # u
        /\ AtImmediateReconnect(t)
        /\ Running(u) /\ Top(stack[u]).fn = "close"

\* C20: once the collector is healthy for good, the sink becomes connected
\* with an open transport, and the collector receives an entry.
C20_EventualRecovery ==
    /\ healthy ~> (connected /\ transportOpen)
    /\ healthy ~> (wire # NoEntry)

\* The collector recovered while the sink was disconnected and throttled at
\* the end of the bounded time; the clock then went on and the collector
\* now receives an entry.
C20_Witness ==
    /\ healthy
    /\ wire # NoEntry
    /\ last_connect_time >= StartTime
    /\ clock > StartTime + MaxClock

====
